---- MODULE Spec2Model ----
(***************************************************************************)
(* A model of custom_formatter: the template parser and argument reorderer *)
(* of the custom_format_args procedural macro, and the runtime Arguments   *)
(* iterator, render passes (from_args) and drivers of the library crate.   *)
(*                                                                         *)
(* Strings are sequences of one-character strings.                         *)
(***************************************************************************)
EXTENDS Integers, Sequences, FiniteSets, TLC

VARIABLES
    template,         \* lit.value(): the template string being parsed
    call_args,        \* macro_args.args: the call's argument expressions
    pc,               \* position of the whole computation
    pos,              \* number of characters char_iter has yielded
    partial,          \* FormatString::parse: the pending literal buffer
    argument_string,  \* FormatString::parse: the pending placeholder text
    fs_args,          \* FormatString::parse: the Punctuated under construction
    format_str,       \* the syn::Result<FormatString> returned by parse
    args_iter,        \* custom_format_args: number of entries args_iter has yielded
    args_reordered,   \* custom_format_args: the entries collected so far
    expansion,        \* the token stream custom_format_args returns
    eval_count,       \* runtime: evaluations of each call argument expression
    pieces,           \* Arguments.pieces: the fragments not yet emitted
    args,             \* Arguments.args: the arguments not yet emitted
    self_,            \* from_args: the accumulator
    capacity,         \* from_args: the capacity the accumulator was created with
    fmt_calls,        \* the arguments whose fmt was invoked, in order
    emitted,          \* what Arguments::next has returned, call by call
    ret,              \* the Result from_args returned
    outcome,          \* what the driver did: returned the output, or panicked
    target,           \* F: the CustomFormatter the call renders into
    slices            \* the two arrays the generated call hands to Arguments::new

vars == <<template, call_args, pc, pos, partial, argument_string, fs_args,
          format_str, args_iter, args_reordered, expansion, eval_count,
          pieces, args, self_, capacity, fmt_calls, emitted, ret, outcome,
          target, slices>>

parse_vars == <<pos, partial, argument_string, fs_args, format_str>>
macro_vars == <<args_iter, args_reordered, expansion>>
run_vars == <<eval_count, pieces, args, self_, capacity, fmt_calls, emitted,
              ret, outcome, slices>>

-----------------------------------------------------------------------------
(* Bounds *)

MaxLen == 4
MaxE2ELen == 4
MaxArgs == 2
MaxPieces == 3
MaxRenderArgs == 3
MaxExtraCalls == 2
MaxCapacityPieces == 2
MaxCapacityArgs == 2

-----------------------------------------------------------------------------
(* Characters and strings *)

None == "None"

\* Result<T, E>, and the state before a result exists.
NoResult == [ok |-> FALSE, msg |-> None, args |-> None]
Ok(a) == [ok |-> TRUE, msg |-> None, args |-> a]
Err(m) == [ok |-> FALSE, msg |-> m, args |-> None]

Whitespace == {" "}
Digits == {"0", "1", "2", "3", "4", "5", "6", "7", "8", "9"}
Letters == {"a", "b", "c", "d", "e", "h", "i", "l", "m", "n", "o", "r", "s",
            "t", "u", "w", "y"}

DigitValue(c) ==
    CASE c = "0" -> 0 [] c = "1" -> 1 [] c = "2" -> 2 [] c = "3" -> 3
      [] c = "4" -> 4 [] c = "5" -> 5 [] c = "6" -> 6 [] c = "7" -> 7
      [] c = "8" -> 8 [] c = "9" -> 9

SeqsUpTo(S, n) == UNION {[1..k -> S] : k \in 0..n}

RECURSIVE Concat(_)
Concat(ss) == IF ss = <<>> THEN <<>> ELSE Head(ss) \o Concat(Tail(ss))

\* str::trim_ascii
RECURSIVE trim_ascii_start(_)
trim_ascii_start(s) ==
    IF s # <<>> /\ Head(s) \in Whitespace THEN trim_ascii_start(Tail(s)) ELSE s

RECURSIVE trim_ascii_end(_)
trim_ascii_end(s) ==
    IF s # <<>> /\ s[Len(s)] \in Whitespace
    THEN trim_ascii_end(SubSeq(s, 1, Len(s) - 1))
    ELSE s

trim_ascii(s) == trim_ascii_end(trim_ascii_start(s))

\* <usize as FromStr>::from_str: an optional '+', then one or more digits.
RECURSIVE DecimalValue(_)
DecimalValue(s) ==
    IF s = <<>> THEN 0
    ELSE 10 * DecimalValue(SubSeq(s, 1, Len(s) - 1)) + DigitValue(s[Len(s)])

\* usize::MAX (64 bits) in decimal; a longer or larger number overflows.
UsizeMaxDigits ==
    <<"1", "8", "4", "4", "6", "7", "4", "4", "0", "7", "3", "7", "0", "9",
      "5", "5", "1", "6", "1", "5">>

RECURSIVE StripZeros(_)
StripZeros(s) ==
    IF Len(s) > 1 /\ Head(s) = "0" THEN StripZeros(Tail(s)) ELSE s

RECURSIVE DigitsLeq(_, _)
DigitsLeq(s, t) ==
    IF s = <<>> THEN TRUE
    ELSE IF DigitValue(Head(s)) # DigitValue(Head(t))
         THEN DigitValue(Head(s)) < DigitValue(Head(t))
         ELSE DigitsLeq(Tail(s), Tail(t))

FitsUsize(digits) ==
    LET d == StripZeros(digits)
    IN  \/ Len(d) < Len(UsizeMaxDigits)
        \/ Len(d) = Len(UsizeMaxDigits) /\ DigitsLeq(d, UsizeMaxDigits)

parse_usize(s) ==
    LET digits == IF s # <<>> /\ Head(s) = "+" THEN Tail(s) ELSE s
    IN  IF digits # <<>> /\ (\A i \in 1..Len(digits) : digits[i] \in Digits)
           /\ FitsUsize(digits)
        THEN Ok(DecimalValue(digits))
        ELSE Err("invalid digit found in string")

InvalidArgument == "expected identifier"

\* syn::parse_str::<Ident>: one identifier that is not a keyword.
Keywords == {<<"a", "s">>, <<"d", "o">>, <<"i", "n">>, <<"l", "e", "t">>,
             <<"u", "s", "e">>, <<"m", "o", "d">>, <<"e", "l", "s", "e">>}

parse_ident(s) ==
    IF s # <<>> /\ s[1] \in Letters
       /\ (\A i \in 1..Len(s) : s[i] \in Letters \cup Digits)
       /\ s \notin Keywords
    THEN Ok(s)
    ELSE Err(InvalidArgument)

-----------------------------------------------------------------------------
(* FormatArgument, and the Punctuated<LitStr, FormatArgument> of a          *)
(* FormatString: values are the fragments, punctuation the placeholders.    *)

Positional == [tag |-> "Positional", n |-> 0, name |-> <<>>]
Numbered(num) == [tag |-> "Numbered", n |-> num, name |-> <<>>]
Named(ident) == [tag |-> "Named", n |-> 0, name |-> ident]

PunctuatedNew == [values |-> <<>>, puncts |-> <<>>]
\* Mutant of push_value: an empty fragment is not recorded.
push_value_nonempty(p, v) ==
    IF v = <<>> THEN p ELSE [p EXCEPT !.values = Append(@, v)]

push_value(p, v) == [p EXCEPT !.values = Append(@, v)]
push_punct(p, a) == [p EXCEPT !.puncts = Append(@, a)]

\* The messages of the parser's own failures (their backquotes left out).
ExpectedClose == "invalid format string: expected } but string was terminated"
Unmatched == "invalid format string: unmatched } found"

\* The placeholder a closed "{...}" stands for (lines 117-132).
ParseArgument(s) ==
    LET argument == trim_ascii(s)
    IN  IF argument = <<>> THEN Ok(Positional)
        ELSE IF parse_usize(argument).ok
             THEN Ok(Numbered(parse_usize(argument).args))
             ELSE IF parse_ident(argument).ok
                  THEN Ok(Named(parse_ident(argument).args))
                  ELSE Err(parse_ident(argument).msg)

Peek == IF pos + 2 <= Len(template) THEN template[pos + 2] ELSE None

\* The escape arm of the scan: '{{' and '}}' push one brace (lines 99, 134).
PushEscaped(c) ==
    /\ partial' = Append(partial, c)
    /\ pos' = pos + 1
    /\ UNCHANGED <<pc, argument_string, fs_args, format_str>>

\* A '}' outside a placeholder and not before another '}' (lines 135-140).
UnmatchedClose ==
    /\ format_str' = Err(Unmatched)
    /\ pc' = "parsed"
    /\ pos' = pos + 1
    /\ UNCHANGED <<partial, argument_string, fs_args>>

\* One iteration of the outer loop up to the start of the placeholder scan.
ParseChar ==
    /\ pc = "text"
    /\ pos < Len(template)
    /\ LET c == template[pos + 1]
       IN  IF c = "{" /\ Peek = "{" THEN PushEscaped("{")
           ELSE IF c = "{"
           THEN /\ fs_args' = push_value(fs_args, partial)
                /\ partial' = <<>>
                /\ argument_string' = <<>>
                /\ pos' = pos + 1
                /\ pc' = "arg"
                /\ UNCHANGED format_str
           ELSE IF c = "}" /\ Peek = "}" THEN PushEscaped("}")
           ELSE IF c = "}" THEN UnmatchedClose
           ELSE /\ partial' = Append(partial, c)
                /\ pos' = pos + 1
                /\ UNCHANGED <<pc, argument_string, fs_args, format_str>>
    /\ UNCHANGED <<template, call_args, target, macro_vars, run_vars>>

\* What follows the inner loop's break: the placeholder pushed, or a failure.
CloseArgument ==
    LET a == ParseArgument(argument_string)
    IN  IF a.ok
        THEN /\ fs_args' = push_punct(fs_args, a.args)
             /\ pc' = "text"
             /\ UNCHANGED format_str
        ELSE /\ format_str' = Err(a.msg)
             /\ pc' = "parsed"
             /\ UNCHANGED fs_args

\* One iteration of the inner loop, with what follows its break.
ScanArgument ==
    /\ pc = "arg"
    /\ IF pos < Len(template)
       THEN /\ pos' = pos + 1
            /\ IF template[pos + 1] = "}"
               THEN /\ CloseArgument
                    /\ UNCHANGED argument_string
               ELSE /\ argument_string' = Append(argument_string, template[pos + 1])
                    /\ UNCHANGED <<pc, fs_args, format_str>>
       ELSE /\ format_str' = Err(ExpectedClose)
            /\ pc' = "parsed"
            /\ UNCHANGED <<pos, argument_string, fs_args>>
    /\ UNCHANGED <<template, call_args, target, partial, macro_vars, run_vars>>

\* The end of the input: the last fragment, if any text is pending.
ParseEnd ==
    /\ pc = "text"
    /\ pos = Len(template)
    /\ LET final == IF Len(partial) > 0 THEN push_value(fs_args, partial)
                    ELSE fs_args
       IN  /\ fs_args' = final
           /\ format_str' = Ok(final)
    /\ pc' = "parsed"
    /\ UNCHANGED <<template, call_args, target, pos, partial, argument_string,
                   macro_vars, run_vars>>

-----------------------------------------------------------------------------
(* custom_format_args: the argument reorderer *)

\* An argument expression of the call: its position in the call and the
\* value it evaluates to.
CallExpr(i, v) == [kind |-> "call", id |-> i, name |-> <<>>, val |-> v]

\* The values the model's expressions produce: a &str, a u8, an i32, and a
\* value of a user type whose Format implementations return an error.
Str(text) == [ty |-> "str", s |-> text, n |-> 0]
U8(byte) == [ty |-> "u8", s |-> <<>>, n |-> byte]
I32(num) == [ty |-> "i32", s |-> <<>>, n |-> num]
Failing == [ty |-> "failing", s |-> <<>>, n |-> 0]

\* A value of a user type with its own Format implementation for each
\* target: fmt appends text, estimated_capacity returns estimate.
User(text, estimate) == [ty |-> "user", s |-> text, n |-> estimate]

\* The local variable a Named placeholder refers to holds a &str.
ScopeValue(ident) == Str(<<"$">> \o ident)

\* syn::Expr::Verbatim(name.into_token_stream())
Verbatim(ident) ==
    [kind |-> "verbatim", id |-> 0, name |-> ident, val |-> ScopeValue(ident)]

MissingPositional == "format string missing positional argument"
OutOfRange == "numbered argument out of range"

\* Mutant of ResolveArgument: an index past the end takes the last argument.
ResolveArgumentClamped(arg, cursor) ==
    IF arg.tag = "Positional"
    THEN IF cursor < Len(call_args) THEN Ok(call_args[cursor + 1])
         ELSE Err(MissingPositional)
    ELSE IF arg.tag = "Numbered"
    THEN IF arg.n < Len(call_args) THEN Ok(call_args[arg.n + 1])
         ELSE IF Len(call_args) > 0 THEN Ok(call_args[Len(call_args)])
         ELSE Err(OutOfRange)
    ELSE Ok(Verbatim(arg.name))

\* The closure mapped over the placeholders (lines 28-42); cursor is the
\* number of entries args_iter has yielded.
ResolveArgument(arg, cursor) ==
    IF arg.tag = "Positional"
    THEN IF cursor < Len(call_args) THEN Ok(call_args[cursor + 1])
         ELSE Err(MissingPositional)
    ELSE IF arg.tag = "Numbered"
    THEN IF arg.n < Len(call_args) THEN Ok(call_args[arg.n + 1])
         ELSE Err(OutOfRange)
    ELSE Ok(Verbatim(arg.name))

\* Mutant of AdvanceCursor: an Indexed placeholder moves the cursor too.
AdvanceCursorIndexed(arg, cursor) ==
    IF arg.tag \in {"Positional", "Numbered"} /\ cursor < Len(call_args)
    THEN cursor + 1
    ELSE cursor

\* args_iter.next() is called for a Positional placeholder only.
AdvanceCursor(arg, cursor) ==
    IF arg.tag = "Positional" /\ cursor < Len(call_args) THEN cursor + 1
    ELSE cursor

\* parse_macro_input!: a rejected template becomes the macro's compile error.
MacroStart ==
    /\ pc = "parsed"
    /\ IF format_str.ok
       THEN /\ pc' = "reorder"
            /\ UNCHANGED expansion
       ELSE /\ expansion' = Err(format_str.msg)
            /\ pc' = "expanded"
    /\ args_iter' = 0
    /\ args_reordered' = <<>>
    /\ UNCHANGED <<template, call_args, target, parse_vars, run_vars>>

\* One placeholder through the map, collect stopping at the first Err.
ReorderStep ==
    /\ pc = "reorder"
    /\ Len(args_reordered) < Len(format_str.args.puncts)
    /\ LET arg == format_str.args.puncts[Len(args_reordered) + 1]
           r == ResolveArgument(arg, args_iter)
       IN  /\ args_iter' = AdvanceCursor(arg, args_iter)
           /\ IF r.ok
              THEN /\ args_reordered' = Append(args_reordered, r.args)
                   /\ UNCHANGED <<pc, expansion>>
              ELSE /\ expansion' = Err(r.msg)
                   /\ pc' = "expanded"
                   /\ UNCHANGED args_reordered
    /\ UNCHANGED <<template, call_args, target, parse_vars, run_vars>>

\* quote!: Arguments::new(&[pieces], &[Argument::from_ref(&args_reordered)]).
ReorderEnd ==
    /\ pc = "reorder"
    /\ Len(args_reordered) = Len(format_str.args.puncts)
    /\ expansion' = Ok([pieces |-> format_str.args.values,
                        args |-> args_reordered])
    /\ pc' = "expanded"
    /\ UNCHANGED <<template, call_args, target, parse_vars, args_iter,
                   args_reordered, run_vars>>

-----------------------------------------------------------------------------
(* Format implementations of the built-in targets (impls.rs) *)

Targets == {"Vec<u8>", "DebugFormatter", "DisplayFormatter"}

DigitChar(d) ==
    CASE d = 0 -> "0" [] d = 1 -> "1" [] d = 2 -> "2" [] d = 3 -> "3"
      [] d = 4 -> "4" [] d = 5 -> "5" [] d = 6 -> "6" [] d = 7 -> "7"
      [] d = 8 -> "8" [] d = 9 -> "9"

\* The decimal text Display and Debug give an integer.
RECURSIVE Decimal(_)
Decimal(num) ==
    IF num < 10 THEN <<DigitChar(num)>>
    ELSE Decimal(num \div 10) \o <<DigitChar(num % 10)>>

\* The character a byte is, for the bytes the model uses (ASCII digits).
ByteChar(byte) ==
    IF byte \in 48..57 THEN DigitChar(byte - 48) ELSE "?"

\* The types with a Format<F> implementation.
Implements(F, ty) ==
    IF F = "Vec<u8>" THEN ty \in {"str", "u8", "failing", "user"}
    ELSE ty \in {"str", "u8", "i32", "failing", "user"}

\* <T as Format<F>>::fmt(value, f), f the accumulator.
TypeFmt(F, ty, value, f) ==
    IF ty = "failing" THEN Err("fmt")
    ELSE IF ty = "user" THEN Ok(f \o value.s)
    ELSE IF F = "Vec<u8>"
    THEN IF ty = "str" THEN Ok(f \o value.s) ELSE Ok(Append(f, ByteChar(value.n)))
    ELSE IF F = "DebugFormatter"
    THEN IF ty = "str" THEN Ok(f \o <<"\"">> \o value.s \o <<"\"">>)
         ELSE Ok(f \o Decimal(value.n))
    ELSE IF ty = "str" THEN Ok(f \o value.s) ELSE Ok(f \o Decimal(value.n))

\* <T as Format<F>>::estimated_capacity(value)
TypeEstimatedCapacity(F, ty, value) ==
    IF ty = "user" THEN value.n
    ELSE IF F = "Vec<u8>" /\ ty = "str" THEN Len(value.s)
    ELSE IF F = "Vec<u8>" /\ ty = "u8" THEN 1
    ELSE 0

-----------------------------------------------------------------------------
(* Argument and Arguments (lib.rs) *)

\* Argument::from_ref: the reference, T's fmt, and T's capacity estimate.
from_ref(F, value) ==
    [ptr |-> value, formatter |-> value.ty,
     estimated_capacity |-> TypeEstimatedCapacity(F, value.ty, value)]

\* <Argument as Format<F>>::fmt
ArgumentFmt(F, arg, f) == TypeFmt(F, arg.formatter, arg.ptr, f)

NoArgument == [ptr |-> Failing, formatter |-> None, estimated_capacity |-> 0]
NoItem == [some |-> FALSE, piece |-> <<>>, has_arg |-> FALSE, arg |-> NoArgument]

\* Mutant of ArgumentsNext: arguments left after the last piece are emitted
\* with an empty piece.
ArgumentsNextLongest(ps, as) ==
    IF ps # <<>> \/ as # <<>>
    THEN [item |-> [some |-> TRUE,
                    piece |-> IF ps # <<>> THEN Head(ps) ELSE <<>>,
                    has_arg |-> as # <<>>,
                    arg |-> IF as # <<>> THEN Head(as) ELSE NoArgument],
          pieces |-> IF ps # <<>> THEN Tail(ps) ELSE ps,
          args |-> IF as # <<>> THEN Tail(as) ELSE as]
    ELSE [item |-> NoItem, pieces |-> ps, args |-> as]

\* <Arguments as Iterator>::next: the item, and the two slices left.
ArgumentsNext(ps, as) ==
    IF ps # <<>>
    THEN IF as # <<>>
         THEN [item |-> [some |-> TRUE, piece |-> Head(ps), has_arg |-> TRUE,
                         arg |-> Head(as)],
               pieces |-> Tail(ps), args |-> Tail(as)]
         ELSE [item |-> [some |-> TRUE, piece |-> Head(ps), has_arg |-> FALSE,
                         arg |-> NoArgument],
               pieces |-> Tail(ps), args |-> as]
    ELSE [item |-> NoItem, pieces |-> ps, args |-> as]

RECURSIVE SumCapacity(_)
SumCapacity(as) ==
    IF as = <<>> THEN 0
    ELSE Head(as).estimated_capacity + SumCapacity(Tail(as))

\* The limits of usize and isize. TLC's integers end at 2^31 - 1, so the
\* run-time half of the model takes the usize of a 16-bit target; a wider
\* usize moves the two limits and nothing else.
UsizeMax == 2^16 - 1
IsizeMax == 2^15 - 1

AddOverflow == "attempt to add with overflow"
CapacityOverflow == "capacity overflow"

\* Arguments::estimated_total_capacity: the sum of the estimates as a usize.
\* A sum past usize::MAX panics where overflow checks are compiled in and
\* wraps where they are not (overflow_checks tells which build it is).
estimated_total_capacity(as, overflow_checks) ==
    IF SumCapacity(as) <= UsizeMax THEN Ok(SumCapacity(as))
    ELSE IF overflow_checks THEN Err(AddOverflow)
    ELSE Ok(SumCapacity(as) % (UsizeMax + 1))

\* Vec::with_capacity / String::with_capacity: an empty accumulator; a
\* capacity of more than isize::MAX bytes panics.
with_capacity(cap) ==
    IF cap > IsizeMax THEN Err(CapacityOverflow) ELSE Ok(<<>>)

\* Mutant of Evaluate: an expression already evaluated is reused.
EvaluateOnce(count, e) ==
    IF e.kind = "call" /\ count[e.id] = 0 THEN [count EXCEPT ![e.id] = @ + 1]
    ELSE count

\* Evaluating one entry of the generated argument array: a call argument's
\* expression is evaluated where it stands (no hoisting into a binding); a
\* Named entry is a read of a local variable.
Evaluate(count, e) ==
    IF e.kind = "call" THEN [count EXCEPT ![e.id] = @ + 1] ELSE count

\* The generated expression evaluates, entry by entry, the argument
\* expressions of args_reordered and wraps each value by Argument::from_ref.
EvalArgument ==
    /\ pc = "expanded"
    /\ expansion.ok
    /\ Len(slices.args) < Len(expansion.args.args)
    /\ LET e == expansion.args.args[Len(slices.args) + 1]
       IN  /\ eval_count' = Evaluate(eval_count, e)
           /\ slices' = [slices EXCEPT !.args = Append(@, from_ref(target, e.val))]
    /\ UNCHANGED <<template, call_args, target, pc, parse_vars, macro_vars,
                   pieces, args, self_, capacity, fmt_calls, emitted, ret,
                   outcome>>

\* Arguments::new over the two arrays, handed to custom_format.
ArgumentsNew ==
    /\ pc = "expanded"
    /\ expansion.ok
    /\ Len(slices.args) = Len(expansion.args.args)
    /\ slices' = [slices EXCEPT !.pieces = expansion.args.pieces]
    /\ pieces' = expansion.args.pieces
    /\ args' = slices.args
    /\ pc' = "call"
    /\ UNCHANGED <<template, call_args, target, parse_vars, macro_vars,
                   eval_count, self_, capacity, fmt_calls, emitted, ret,
                   outcome>>

\* from_args up to its loop: the accumulator, pre-sized by the estimate.
\* A panic there unwinds through from_args and the driver.
FromArgsStart ==
    /\ pc = "call"
    /\ \E overflow_checks \in BOOLEAN :
          LET total == estimated_total_capacity(args, overflow_checks)
              acc == IF total.ok THEN with_capacity(total.args) ELSE total
          IN  IF acc.ok
              THEN /\ self_' = acc.args
                   /\ capacity' = total.args
                   /\ pc' = "loop"
                   /\ UNCHANGED outcome
              ELSE /\ outcome' = Err(acc.msg)
                   /\ pc' = "done"
                   /\ UNCHANGED <<self_, capacity>>
    /\ UNCHANGED <<template, call_args, target, parse_vars, macro_vars,
                   eval_count, pieces, args, fmt_calls, emitted, ret, slices>>

\* The accumulator's own append (Vec::write, String::write_str): infallible.
WritePiece(f, piece) == Ok(f \o piece)

\* Mutant of RenderItem: the argument's Err is dropped instead of returned.
RenderItemUnchecked(F, f, item) ==
    LET w == WritePiece(f, item.piece)
    IN  IF ~w.ok THEN w
        ELSE IF item.has_arg /\ ArgumentFmt(F, item.arg, w.args).ok
        THEN ArgumentFmt(F, item.arg, w.args)
        ELSE w

\* The body of the loop for one item: the piece, then the argument; the
\* first Err is what the ? operators return.
RenderItem(F, f, item) ==
    LET w == WritePiece(f, item.piece)
    IN  IF ~w.ok THEN w
        ELSE IF item.has_arg THEN ArgumentFmt(F, item.arg, w.args)
        ELSE w

\* The accumulator the body leaves when it returns an Err: what was
\* appended before it.
Written(f, item) ==
    IF WritePiece(f, item.piece).ok THEN WritePiece(f, item.piece).args ELSE f

\* Whether the body invokes the item's argument.
InvokesArgument(f, item) == WritePiece(f, item.piece).ok /\ item.has_arg

\* One iteration of from_args' for loop, or its end.
FromArgsLoop ==
    /\ pc = "loop"
    /\ LET nx == ArgumentsNext(pieces, args)
           r == RenderItem(target, self_, nx.item)
       IN  /\ pieces' = nx.pieces
           /\ args' = nx.args
           /\ emitted' = Append(emitted, nx.item)
           /\ IF ~nx.item.some
              THEN /\ ret' = Ok(self_)
                   /\ pc' = "returned"
                   /\ UNCHANGED <<self_, fmt_calls>>
              ELSE /\ fmt_calls' = IF InvokesArgument(self_, nx.item)
                                   THEN Append(fmt_calls, nx.item.arg)
                                   ELSE fmt_calls
                   /\ IF r.ok
                      THEN /\ self_' = r.args
                           /\ UNCHANGED <<pc, ret>>
                      ELSE /\ ret' = Err(r.msg)
                           /\ pc' = "returned"
                           /\ self_' = Written(self_, nx.item)
    /\ UNCHANGED <<template, call_args, target, parse_vars, macro_vars,
                   eval_count, capacity, outcome, slices>>

\* custom_format / custom_format_infer: the output, or a panic.
CustomFormat ==
    /\ pc = "returned"
    /\ outcome' = IF ret.ok THEN Ok(ret.args)
                  ELSE Err("the formatter returned an error")
    /\ pc' = "done"
    /\ UNCHANGED <<template, call_args, target, parse_vars, macro_vars,
                   eval_count, pieces, args, self_, capacity, fmt_calls,
                   emitted, ret, slices>>

\* A caller of the iterator itself: one call of next.
IterNext ==
    /\ pc = "iter"
    /\ Len(emitted) < Len(slices.pieces) + MaxExtraCalls
    /\ LET nx == ArgumentsNext(pieces, args)
       IN  /\ pieces' = nx.pieces
           /\ args' = nx.args
           /\ emitted' = Append(emitted, nx.item)
    /\ UNCHANGED <<template, call_args, target, pc, parse_vars, macro_vars,
                   eval_count, self_, capacity, fmt_calls, ret, outcome,
                   slices>>

-----------------------------------------------------------------------------
(* Inputs *)

Alphabet == {"{", "}", "a", "0", "1", " ", "+"}

ExampleTemplates ==
    { <<"a", "{", "{", "b", "}", "}", "c">>,
      <<"u", "n", "t", "e", "r", "m", "i", "n", "a", "t", "e", "d", " ", "{">>,
      <<"s", "t", "r", "a", "y", " ", "}", " ", "h", "e", "r", "e">>,
      <<"h", "e", "l", "l", "o", " ", "{", "}", " ", "w", "o", "r", "l", "d",
        " ", "n", "u", "m", "b", "e", "r", " ", "{", "}">>,
      <<"{", "0", "}", "{", "0", "}">>,
      <<"{", "5", "}">> }

Templates == SeqsUpTo(Alphabet, MaxLen) \cup ExampleTemplates

InitIdle ==
    /\ call_args = <<>>
    /\ pos = 0
    /\ partial = <<>>
    /\ argument_string = <<>>
    /\ fs_args = PunctuatedNew
    /\ format_str = NoResult
    /\ args_iter = 0
    /\ args_reordered = <<>>
    /\ expansion = NoResult
    /\ eval_count = <<>>
    /\ pieces = <<>>
    /\ args = <<>>
    /\ self_ = <<>>
    /\ capacity = 0
    /\ fmt_calls = <<>>
    /\ emitted = <<>>
    /\ ret = NoResult
    /\ outcome = NoResult
    /\ slices = [pieces |-> <<>>, args |-> <<>>]

InitParse ==
    /\ template \in Templates
    /\ target = "DisplayFormatter"
    /\ pc = "text"
    /\ InitIdle

NextParse == ParseChar \/ ScanArgument \/ ParseEnd

SpecParse == InitParse /\ [][NextParse]_vars

\* A whole call of custom_format!: the macro's expansion, then the run.
E2EAlphabet == {"{", "}", "a", "0"}
E2EValues == {Str(<<"x">>), U8(51)}

Beautiful == <<"b", "e", "a", "u", "t", "i", "f", "u", "l">>

ExampleCalls ==
    { [template |-> <<"h", "e", "l", "l", "o", " ", "{", "}", " ", "w", "o",
                      "r", "l", "d", " ", "n", "u", "m", "b", "e", "r", " ",
                      "{", "}">>,
       values |-> <<Str(Beautiful), I32(2)>>, target |-> "DisplayFormatter"],
      [template |-> <<"h", "e", "l", "l", "o", " ", "{", "}", " ", "w", "o",
                      "r", "l", "d">>,
       values |-> <<Str(Beautiful)>>, target |-> "DebugFormatter"],
      [template |-> <<"{", "0", "}", "{", "0", "}">>,
       values |-> <<Str(<<"x">>)>>, target |-> "DisplayFormatter"],
      [template |-> <<"{", "5", "}">>,
       values |-> <<Str(<<"x">>), U8(51), Str(<<"x">>)>>,
       target |-> "DisplayFormatter"],
      [template |-> <<"{", "1", "}", "{", "}", "{", "a", "}", "{", "}">>,
       values |-> <<Str(<<"x">>), U8(51)>>, target |-> "DisplayFormatter"],
      [template |-> <<"a", "{", "{", "b", "}", "}", "c">>,
       values |-> <<>>, target |-> "DisplayFormatter"] }

Calls ==
    [template : SeqsUpTo(E2EAlphabet, MaxE2ELen),
     values : SeqsUpTo(E2EValues, MaxArgs),
     target : Targets] \cup ExampleCalls

Init ==
    /\ \E c \in Calls :
          /\ template = c.template
          /\ call_args = [i \in 1..Len(c.values) |-> CallExpr(i, c.values[i])]
          /\ eval_count = [i \in 1..Len(c.values) |-> 0]
          /\ target = c.target
    /\ pc = "text"
    /\ pos = 0
    /\ partial = <<>>
    /\ argument_string = <<>>
    /\ fs_args = PunctuatedNew
    /\ format_str = NoResult
    /\ args_iter = 0
    /\ args_reordered = <<>>
    /\ expansion = NoResult
    /\ pieces = <<>>
    /\ args = <<>>
    /\ self_ = <<>>
    /\ capacity = 0
    /\ fmt_calls = <<>>
    /\ emitted = <<>>
    /\ ret = NoResult
    /\ outcome = NoResult
    /\ slices = [pieces |-> <<>>, args |-> <<>>]

Next ==
    \/ ParseChar \/ ScanArgument \/ ParseEnd
    \/ MacroStart \/ ReorderStep \/ ReorderEnd
    \/ EvalArgument \/ ArgumentsNew
    \/ FromArgsStart \/ FromArgsLoop \/ CustomFormat

Spec == Init /\ [][Next]_vars

\* Arguments::new is public: a render pass over any two slices.
PieceSet == {<<>>, <<"a">>, <<"b", "c">>}
RenderValues(F) == {v \in {Str(<<"x">>), U8(51), I32(2), Failing} : Implements(F, v.ty)}

InitArguments ==
    /\ target \in Targets
    /\ \E ps \in SeqsUpTo(PieceSet, MaxPieces) :
       \E vs \in SeqsUpTo(RenderValues(target), MaxRenderArgs) :
          slices = [pieces |-> ps,
                    args |-> [i \in 1..Len(vs) |-> from_ref(target, vs[i])]]
    /\ pieces = slices.pieces
    /\ args = slices.args
    /\ template = <<>>
    /\ call_args = <<>>
    /\ pos = 0
    /\ partial = <<>>
    /\ argument_string = <<>>
    /\ fs_args = PunctuatedNew
    /\ format_str = NoResult
    /\ args_iter = 0
    /\ args_reordered = <<>>
    /\ expansion = NoResult
    /\ eval_count = <<>>
    /\ self_ = <<>>
    /\ capacity = 0
    /\ fmt_calls = <<>>
    /\ emitted = <<>>
    /\ ret = NoResult
    /\ outcome = NoResult

InitRender == InitArguments /\ pc = "call"

NextRender == FromArgsStart \/ FromArgsLoop \/ CustomFormat

SpecRender == InitRender /\ [][NextRender]_vars

InitIter == InitArguments /\ pc = "iter"

NextIter == IterNext

SpecIter == InitIter /\ [][NextIter]_vars

\* A render pass over arguments of user types whose estimated_capacity
\* returns zero, a small number, or the largest usize.
Estimates == {0, 1, UsizeMax}
CapacityPieces == {<<>>, <<"a">>}
CapacityValues ==
    {User(<<"x">>, est) : est \in Estimates} \cup {Failing}

InitCapacity ==
    /\ target \in Targets
    /\ \E ps \in SeqsUpTo(CapacityPieces, MaxCapacityPieces) :
       \E vs \in SeqsUpTo(CapacityValues, MaxCapacityArgs) :
          slices = [pieces |-> ps,
                    args |-> [i \in 1..Len(vs) |-> from_ref(target, vs[i])]]
    /\ pieces = slices.pieces
    /\ args = slices.args
    /\ pc = "call"
    /\ template = <<>>
    /\ call_args = <<>>
    /\ pos = 0
    /\ partial = <<>>
    /\ argument_string = <<>>
    /\ fs_args = PunctuatedNew
    /\ format_str = NoResult
    /\ args_iter = 0
    /\ args_reordered = <<>>
    /\ expansion = NoResult
    /\ eval_count = <<>>
    /\ self_ = <<>>
    /\ capacity = 0
    /\ fmt_calls = <<>>
    /\ emitted = <<>>
    /\ ret = NoResult
    /\ outcome = NoResult

SpecCapacity == InitCapacity /\ [][NextRender]_vars

-----------------------------------------------------------------------------
(* The template mini-language as the specification words it (sections 4.1  *)
(* and 6): a reference the claims compare the parser with.                  *)

FirstClose(s) ==
    IF \E i \in 1..Len(s) : s[i] = "}"
    THEN CHOOSE i \in 1..Len(s) : s[i] = "}" /\ \A j \in 1..(i - 1) : s[j] # "}"
    ELSE 0

Drop(s, n) == SubSeq(s, n + 1, Len(s))

StartsWith(s, a, b) == Len(s) >= 2 /\ s[1] = a /\ s[2] = b

RECURSIVE IntendedScan(_, _, _, _)
IntendedScan(s, cur, frags, holes) ==
    IF s = <<>>
    THEN [err |-> "none", frags |-> Append(frags, cur), holes |-> holes]
    ELSE IF StartsWith(s, "{", "{")
    THEN IntendedScan(Drop(s, 2), Append(cur, "{"), frags, holes)
    ELSE IF StartsWith(s, "}", "}")
    THEN IntendedScan(Drop(s, 2), Append(cur, "}"), frags, holes)
    ELSE IF Head(s) = "}"
    THEN [err |-> "unmatched", frags |-> <<>>, holes |-> <<>>]
    ELSE IF Head(s) = "{"
    THEN LET k == FirstClose(Tail(s))
             a == ParseArgument(SubSeq(Tail(s), 1, k - 1))
         IN  IF k = 0
             THEN [err |-> "expected", frags |-> <<>>, holes |-> <<>>]
             ELSE IF ~a.ok
             THEN [err |-> "invalid", frags |-> <<>>, holes |-> <<>>]
             ELSE IntendedScan(Drop(Tail(s), k), <<>>, Append(frags, cur),
                               Append(holes, a.args))
    ELSE IntendedScan(Tail(s), Append(cur, Head(s)), frags, holes)

Intended(s) == IntendedScan(s, <<>>, <<>>, <<>>)

Parsed == pc = "parsed"
Accepted == Parsed /\ format_str.ok

EndsInText == template # <<>> /\ template[Len(template)] # "}"

-----------------------------------------------------------------------------
(* Claims about FormatString::parse, under SpecParse *)

\* C1 (as stated): every accepted template has one fragment more than it has
\* placeholders.
C1_Original ==
    Accepted => Len(format_str.args.values) = Len(format_str.args.puncts) + 1

\* C1 (amended): an accepted template has one fragment more than it has
\* placeholders when it ends in literal text, and as many fragments as
\* placeholders when it is empty or ends with a placeholder.
C1_Amended ==
    Accepted =>
        Len(format_str.args.values) =
            Len(format_str.args.puncts) + (IF EndsInText THEN 1 ELSE 0)

\* C1 witness: a template that begins and ends with a placeholder is accepted,
\* an empty fragment standing before its first placeholder.
C1_Witness ==
    /\ Accepted
    /\ Len(format_str.args.puncts) = 2
    /\ Len(format_str.args.values) = 2
    /\ format_str.args.values[1] = <<>>

\* C2: a template in which every brace belongs to a doubled pair is accepted
\* as one fragment, each pair contributing one brace, with no placeholder;
\* so is "a{{b}}c", as the fragment "a{b}c".
C2_Claim ==
    /\ Parsed /\ template = <<"a", "{", "{", "b", "}", "}", "c">>
         => format_str = Ok([values |-> << <<"a", "{", "b", "}", "c">> >>,
                             puncts |-> <<>>])
    /\ Parsed /\ Intended(template).err = "none"
              /\ Intended(template).holes = <<>>
              /\ (\E i \in 1..Len(template) : template[i] \in {"{", "}"})
         => /\ format_str.ok
            /\ format_str.args.puncts = <<>>
            /\ Concat(format_str.args.values) = Intended(template).frags[1]

\* C3: a template without placeholders (empty, literal text, brace escapes)
\* is accepted as exactly one fragment, the template with its escapes
\* resolved, and no placeholder is handed to the reorderer.
C3_Claim ==
    Parsed /\ Intended(template).err = "none" /\ Intended(template).holes = <<>>
        => /\ format_str.ok
           /\ format_str.args.values = Intended(template).frags
           /\ format_str.args.puncts = <<>>

\* C6: a template whose first fault is a placeholder left open at the end of
\* the input is rejected with the "expected }" error, and one whose first
\* fault is a '}' outside any placeholder and outside '}}' with the
\* "unmatched }" error; no FormatString is produced.
C6_Claim ==
    /\ Parsed /\ Intended(template).err = "expected"
         => format_str = Err(ExpectedClose)
    /\ Parsed /\ Intended(template).err = "unmatched"
         => format_str = Err(Unmatched)

\* What holds of the code: C6_Claim for the templates without a doubled brace.
C6_WithoutDoubledBraces ==
    (\A i \in 1..(Len(template) - 1) :
        ~(template[i] = template[i + 1] /\ template[i] \in {"{", "}"}))
        => C6_Claim

-----------------------------------------------------------------------------
(* Claims about custom_format_args, under Spec *)

Expanded == pc \in {"expanded", "call", "loop", "returned", "done"}
Evaluated == pc \in {"call", "loop", "returned", "done"}

\* The number of Implicit placeholders before the i-th.
ImplicitBefore(ph, i) ==
    Cardinality({j \in 1..(i - 1) : ph[j].tag = "Positional"})

\* The position in the call (from 1) the i-th placeholder refers to; 0 for a
\* Named placeholder.
Referenced(ph, i) ==
    IF ph[i].tag = "Positional" THEN ImplicitBefore(ph, i) + 1
    ELSE IF ph[i].tag = "Numbered" THEN ph[i].n + 1
    ELSE 0

Unresolvable(ph, i) ==
    ph[i].tag # "Named" /\ Referenced(ph, i) > Len(call_args)

\* C4: a successful expansion has one entry per placeholder, in template
\* order: an Implicit placeholder's is the call argument at the cursor, which
\* counts the Implicit placeholders before it; Indexed(n)'s is the call
\* argument at n; Named(id)'s is the identifier id, no call argument.
C4_Reordered ==
    /\ pc = "reorder" =>
          args_iter = ImplicitBefore(format_str.args.puncts,
                                     Len(args_reordered) + 1)
    /\ Expanded /\ expansion.ok =>
          LET ph == format_str.args.puncts
              out == expansion.args.args
          IN  /\ Len(out) = Len(ph)
              /\ \A i \in 1..Len(ph) :
                    IF ph[i].tag = "Named"
                    THEN out[i] = Verbatim(ph[i].name) /\ out[i].kind # "call"
                    ELSE /\ Referenced(ph, i) <= Len(call_args)
                         /\ out[i] = call_args[Referenced(ph, i)]

\* C4 witness: "{1}{}{a}{}" with two arguments expands to the second, the
\* first, the identifier a, and the second argument.
C4_Witness ==
    /\ Expanded /\ expansion.ok
    /\ Len(call_args) = 2
    /\ Len(format_str.args.puncts) = 4
    /\ format_str.args.puncts[1].tag = "Numbered"
    /\ format_str.args.puncts[2].tag = "Positional"
    /\ format_str.args.puncts[3].tag = "Named"
    /\ expansion.args.args[4] = call_args[2]

\* C5: when some Implicit placeholder meets a cursor at or past the end of
\* the call's arguments, or some Indexed(n) has n at or past it, the macro
\* returns a compile error (that of the first such placeholder) and no
\* Arguments expression, and nothing is rendered.
C5_Fails ==
    Expanded /\ format_str.ok =>
        LET ph == format_str.args.puncts
            bad == {i \in 1..Len(ph) : Unresolvable(ph, i)}
            first == CHOOSE i \in bad : \A j \in bad : i <= j
        IN  bad # {} =>
              /\ pc = "expanded"
              /\ ~expansion.ok
              /\ expansion.msg = (IF ph[first].tag = "Positional"
                                  THEN MissingPositional ELSE OutOfRange)
              /\ expansion.args = None
              /\ slices.args = <<>> /\ outcome = NoResult

\* C5 witness: "{5}" with three arguments is refused as out of range.
C5_Witness ==
    /\ template = <<"{", "5", "}">>
    /\ Len(call_args) = 3
    /\ expansion = Err(OutOfRange)

\* C10: "{0}{0}" with one argument expands to two copies of that argument's
\* expression; and once the generated call has been evaluated, each call
\* argument's expression has been evaluated once per placeholder referring
\* to it.
C10_Reevaluated ==
    /\ Expanded /\ template = <<"{", "0", "}", "{", "0", "}">>
                /\ Len(call_args) = 1
         => expansion.ok /\ expansion.args.args = <<call_args[1], call_args[1]>>
    /\ Evaluated =>
          \A k \in 1..Len(call_args) :
              eval_count[k] =
                  Cardinality({i \in 1..Len(format_str.args.puncts) :
                                  Referenced(format_str.args.puncts, i) = k})

\* C10 witness: "{0}{0}" rendered, its one argument evaluated twice.
C10_Witness ==
    /\ pc = "done"
    /\ template = <<"{", "0", "}", "{", "0", "}">>
    /\ Len(call_args) = 1
    /\ eval_count[1] = 2

\* The text the specification gives a valid template: its fragments, each
\* followed by the Display text of what its placeholder refers to.
RECURSIVE IntendedText(_, _, _)
IntendedText(frags, holes, i) ==
    IF i > Len(frags) THEN <<>>
    ELSE frags[i]
         \o (IF i > Len(holes) THEN <<>>
             ELSE LET v == IF holes[i].tag = "Named" THEN ScopeValue(holes[i].name)
                           ELSE call_args[Referenced(holes, i)].val
                  IN  IF v.ty = "str" THEN v.s ELSE Decimal(v.n))
         \o IntendedText(frags, holes, i + 1)

IntendedResolves ==
    /\ Intended(template).err = "none"
    /\ \A i \in 1..Len(Intended(template).holes) :
          ~Unresolvable(Intended(template).holes, i)

\* C7: a call the macro accepts, rendered into DisplayFormatter, returns the
\* template's literal text with each placeholder replaced, in template order,
\* by the Display text of its argument.
C7_Claim ==
    pc = "done" /\ target = "DisplayFormatter" /\ expansion.ok
                /\ IntendedResolves
        => outcome = Ok(IntendedText(Intended(template).frags,
                                     Intended(template).holes, 1))

\* What holds of the code: C7_Claim for the templates without a doubled brace.
C7_WithoutDoubledBraces ==
    (\A i \in 1..(Len(template) - 1) :
        ~(template[i] = template[i + 1] /\ template[i] \in {"{", "}"}))
        => C7_Claim

-----------------------------------------------------------------------------
(* Claims about the render pass and the drivers, under SpecRender *)

Fails(arg) == ~ArgumentFmt(target, arg, <<>>).ok

\* The units a pass over the two slices has: one per piece.
FailingUnits ==
    {i \in 1..Len(slices.pieces) :
        i <= Len(slices.args) /\ Fails(slices.args[i])}

\* The accumulator after the first n pieces and the first m arguments.
RECURSIVE Rendered(_, _, _)
Rendered(n, m, i) ==
    IF i > n THEN <<>>
    ELSE slices.pieces[i]
         \o (IF i <= m /\ i <= Len(slices.args)
             THEN ArgumentFmt(target, slices.args[i], <<>>).args ELSE <<>>)
         \o Rendered(n, m, i + 1)

\* C8: once an argument's fmt has returned an Err, from_args returns that Err
\* with no later piece appended and no later argument invoked, and the driver
\* panics; it returns no output.
C8_ShortCircuit ==
    pc \in {"returned", "done"} /\ FailingUnits # {} =>
        LET first == CHOOSE i \in FailingUnits : \A j \in FailingUnits : i <= j
        IN  /\ ~ret.ok /\ ret.msg # None
            /\ fmt_calls = SubSeq(slices.args, 1, first)
            /\ self_ = Rendered(first, first - 1, 1)
            /\ Len(emitted) = first
            /\ pc = "done" => outcome = Err("the formatter returned an error")

\* C8 witness: the second of three arguments fails; the third piece and the
\* third argument are left, and the driver has panicked.
C8_Witness ==
    /\ pc = "done"
    /\ ~outcome.ok
    /\ Len(slices.pieces) = 3 /\ Len(slices.args) = 3
    /\ Len(fmt_calls) = 2
    /\ pieces # <<>> /\ args # <<>>

-----------------------------------------------------------------------------
(* Claims about the Arguments iterator, under SpecIter *)

Min(a, b) == IF a < b THEN a ELSE b

\* C9: the k-th call of next returns the k-th piece with the k-th argument,
\* or with None when there are fewer arguments, and consumes both; past the
\* last piece every call returns None, whatever arguments are left.
C9_Iterator ==
    /\ \A k \in 1..Len(emitted) :
          IF k <= Len(slices.pieces)
          THEN /\ emitted[k].some
               /\ emitted[k].piece = slices.pieces[k]
               /\ emitted[k].has_arg = (k <= Len(slices.args))
               /\ emitted[k].has_arg => emitted[k].arg = slices.args[k]
          ELSE emitted[k] = NoItem
    /\ pieces = Drop(slices.pieces, Min(Len(emitted), Len(slices.pieces)))
    /\ args = Drop(slices.args,
                   Min(Min(Len(emitted), Len(slices.pieces)), Len(slices.args)))

\* C9 witness: more arguments than pieces; next has returned every piece and
\* then None twice, the surplus arguments still unemitted.
C9_Witness ==
    /\ pc = "iter"
    /\ Len(slices.pieces) >= 1
    /\ Len(slices.args) > Len(slices.pieces)
    /\ Len(emitted) = Len(slices.pieces) + 2
    /\ ~emitted[Len(emitted)].some
    /\ args # <<>>

-----------------------------------------------------------------------------
(* Claims about the capacity estimate, under SpecCapacity *)

\* The same arguments with every estimate taken away.
Unestimated(as) == [i \in 1..Len(as) |-> [as[i] EXCEPT !.estimated_capacity = 0]]

\* What the call does when every estimate is zero: the driver's panic when
\* some invoked argument fails, the rendered text otherwise.
EstimateFreeOutcome ==
    IF FailingUnits # {} THEN Err("the formatter returned an error")
    ELSE Ok(Rendered(Len(slices.pieces), Len(slices.args), 1))

\* C11: whatever the arguments' estimated_capacity methods return, the call
\* ends as it does with estimates of zero: the same output, or the same
\* failure of an argument, and no failure of its own.
C11_Claim ==
    pc = "done" =>
        /\ outcome.ok = EstimateFreeOutcome.ok
        /\ outcome.ok => outcome.args = EstimateFreeOutcome.args
        /\ ~outcome.ok => outcome.msg = EstimateFreeOutcome.msg

\* What holds of the code: C11_Claim for estimates whose sum is a capacity
\* that can be allocated (at most isize::MAX); the sum is then the capacity
\* asked for and is read nowhere else.
C11_WhenAllocatable ==
    SumCapacity(slices.args) <= IsizeMax =>
        /\ C11_Claim
        /\ pc \in {"loop", "returned", "done"} =>
              capacity = SumCapacity(slices.args)

====
